---- MODULE Spec2Model ----
(***************************************************************************)
(* A model of python/cudf/cudf/core/column/string.py: the StringColumn     *)
(* type (a nullable column of variable-length strings held in an nvstrings *)
(* storage object) and the StringMethods facade (`.str`).                  *)
(*                                                                         *)
(* One column, `self`, is under test.  Every action is one call on it; the *)
(* call's arguments are drawn from small sets and its outcome (returned    *)
(* value or raised exception, plus the device work it did) is recorded in  *)
(* `last`.                                                                 *)
(***************************************************************************)
EXTENDS Integers, Sequences, FiniteSets, TLC

VARIABLES self, last

vars == <<self, last>>

----------------------------------------------------------------------------
(* Bounds of the model.                                                    *)

MaxRows == 3
MaxStrLen == 2
MaxBytes == 2

(* Bytes that occur in strings: "1" (a digit) and "a" (a letter).          *)
Chars == {49, 97}

----------------------------------------------------------------------------
(* Strings are sequences of bytes.  A row of an nvstrings object is a      *)
(* validity flag plus a byte span; a null row has a zero-length span.      *)

StrsOfLen(n) == [1..n -> Chars]

Strs == UNION {StrsOfLen(n) : n \in 0..MaxStrLen}

Row(s) == [valid |-> TRUE, s |-> s]

NullRow == [valid |-> FALSE, s |-> <<>>]

Rows == {Row(s) : s \in Strs} \cup {NullRow}

RECURSIVE SumLen(_)
SumLen(d) == IF d = <<>> THEN 0 ELSE Len(Head(d).s) + SumLen(Tail(d))

(* nvstrings.size(), nvstrings.null_count(), nvstrings.byte_count()        *)
Size(d) == Len(d)

NullCount(d) == Cardinality({i \in 1..Len(d) : ~d[i].valid})

ByteCount(d) == SumLen(d)

Storages ==
    {d \in UNION {[1..n -> Rows] : n \in 0..MaxRows} : ByteCount(d) <= MaxBytes}

----------------------------------------------------------------------------
(* Device buffers.  `None` is the absent buffer.                           *)

None == [present |-> FALSE, bytes |-> <<>>]

Buffer(bytes) == [present |-> TRUE, bytes |-> bytes]

mask_bitsize == 8

calc_chunk_size(size, chunksize) == (size + chunksize - 1) \div chunksize

RECURSIVE Pow2(_)
Pow2(k) == IF k = 0 THEN 1 ELSE 2 * Pow2(k - 1)

(* Byte b (0-based) of the packed validity bitmap of d: bit i of the byte  *)
(* is set iff row 8b+i+1 exists and is valid (LSB first, 1 = valid).       *)
RECURSIVE MaskByte(_, _, _)
MaskByte(d, b, i) ==
    IF i = mask_bitsize THEN 0
    ELSE (IF mask_bitsize * b + i + 1 <= Len(d) /\ d[mask_bitsize * b + i + 1].valid
          THEN Pow2(i) ELSE 0) + MaskByte(d, b, i + 1)

(* nvstrings.set_null_bitmask(devptr): writes the validity bitmap into a   *)
(* caller-allocated buffer of mask_size bytes.                             *)
set_null_bitmask(d, mask_size) == [b \in 1..mask_size |-> MaskByte(d, b - 1, 0)]

----------------------------------------------------------------------------
(* StringColumn.__init__(data, null_count): the column caches the null     *)
(* count and, only when it is positive, a validity mask exported from the  *)
(* storage; the category caches start empty.  The attributes              *)
(* _is_monotonic_increasing / _is_monotonic_decreasing do not exist until  *)
(* the properties of these names are first read.                           *)

NoCategory == [built |-> FALSE, keys |-> <<>>, values |-> <<>>]

(* An attribute that has not been set (hasattr is False).                  *)
NoAttr == [set |-> FALSE, v |-> FALSE]

Attr(v) == [set |-> TRUE, v |-> v]

StringColumnInit(data, null_count) ==
    [data       |-> data,
     null_count |-> null_count,
     mask       |-> IF null_count > 0
                    THEN Buffer(set_null_bitmask(
                             data, calc_chunk_size(Len(data), mask_bitsize)))
                    ELSE None,
     nvcategory |-> NoCategory,
     indices    |-> None,
     is_monotonic_increasing |-> NoAttr,
     is_monotonic_decreasing |-> NoAttr]

(* StringColumn(data): null_count defaults to data.null_count().           *)
StringColumn(data) == StringColumnInit(data, NullCount(data))

(* rmm.device_array calls made by the constructor.                         *)
InitAllocs(col) == IF col.null_count > 0 THEN 1 ELSE 0

(* A column of a fixed-width dtype: column.build_column(buffer, dtype,     *)
(* mask).                                                                  *)
build_column(values, dtype, mask) == [dtype |-> dtype, values |-> values, mask |-> mask]

----------------------------------------------------------------------------
(* Byte-string helpers used by the storage primitives.                     *)

MatchAt(s, p, i) == i + Len(p) - 1 <= Len(s) /\ SubSeq(s, i, i + Len(p) - 1) = p

(* Index of the leftmost occurrence of p in s, 0 when there is none.       *)
FirstIdx(s, p) ==
    LET hits == {i \in 1..Len(s) : MatchAt(s, p, i)}
    IN  IF hits = {} THEN 0 ELSE CHOOSE i \in hits : \A j \in hits : i <= j

Contains(s, p) == p = <<>> \/ FirstIdx(s, p) # 0

StepCount(n) == IF n < 0 THEN n ELSE n - 1

(* Leftmost, non-overlapping replacement of up to n matches (n < 0: all).  *)
RECURSIVE ReplaceStr(_, _, _, _)
ReplaceStr(s, p, r, n) ==
    LET i == FirstIdx(s, p)
    IN  IF i = 0 \/ n = 0 THEN s
        ELSE SubSeq(s, 1, i - 1) \o r
             \o ReplaceStr(SubSeq(s, i + Len(p), Len(s)), p, r, StepCount(n))

(* Tokens of s around delimiter d, at most n splits (n < 0: all).          *)
RECURSIVE SplitStr(_, _, _)
SplitStr(s, d, n) ==
    LET i == FirstIdx(s, d)
    IN  IF i = 0 \/ n = 0 THEN <<s>>
        ELSE <<SubSeq(s, 1, i - 1)>>
             \o SplitStr(SubSeq(s, i + Len(d), Len(s)), d, StepCount(n))

RECURSIVE Concat(_)
Concat(ss) == IF ss = <<>> THEN <<>> ELSE Head(ss) \o Concat(Tail(ss))

MaxOf(S) == IF S = {} THEN 0 ELSE CHOOSE m \in S : \A x \in S : x <= m

----------------------------------------------------------------------------
(* Storage (nvstrings) primitives used by the facade.  Patterns are        *)
(* literal byte strings without metacharacters, so a regex search for one  *)
(* is the substring search.                                                *)

(* contains(pat, regex, devptr): one boolean per row into the output.      *)
nv_contains(d, pat, regex) == [i \in 1..Len(d) |-> d[i].valid /\ Contains(d[i].s, pat)]

(* replace(pat, repl, n, regex): a new storage; null rows stay null.       *)
nv_replace(d, pat, repl, n, regex) ==
    [i \in 1..Len(d) |->
        IF d[i].valid THEN Row(ReplaceStr(d[i].s, pat, repl, n)) ELSE NullRow]

(* split(delimiter, n): one storage per token position; a row with fewer   *)
(* tokens than the widest row is null in the trailing storages.            *)
nv_split(d, delimiter, n) ==
    LET toks(i) == IF d[i].valid THEN SplitStr(d[i].s, delimiter, n) ELSE <<>>
        width   == MaxOf({Len(toks(i)) : i \in 1..Len(d)})
    IN  [k \in 1..width |->
            [i \in 1..Len(d) |->
                IF k <= Len(toks(i)) THEN Row(toks(i)[k]) ELSE NullRow]]

(* An optional count argument: None, or an integer.                        *)
NoInt == [some |-> FALSE, v |-> 0]

SomeInt(v) == [some |-> TRUE, v |-> v]

(* The number of splits nvstrings.split makes of its argument n: all of    *)
(* them (-1) when it is handed None.                                       *)
nv_count(n) == IF n.some THEN n.v ELSE -1

(* len(devptr): the byte length of each row into the output; the slot of   *)
(* a null row holds no length.                                             *)
nv_len(d) == [i \in 1..Len(d) |-> IF d[i].valid THEN Len(d[i].s) ELSE -1]

LowerByte(c) == IF c >= 65 /\ c <= 90 THEN c + 32 ELSE c

(* lower(): a new storage with every letter in lower case.                 *)
nv_lower(d) ==
    [i \in 1..Len(d) |->
        IF d[i].valid THEN Row([k \in 1..Len(d[i].s) |-> LowerByte(d[i].s[k])])
        ELSE NullRow]

(* extract(pat): one storage per capturing group.  A pattern is given as   *)
(* the list of its groups, each a literal: <<g1, g2>> is "(g1)(g2)".       *)
nv_extract(d, groups) ==
    [k \in 1..Len(groups) |->
        [i \in 1..Len(d) |->
            IF d[i].valid /\ Contains(d[i].s, Concat(groups))
            THEN Row(groups[k]) ELSE NullRow]]

----------------------------------------------------------------------------
(* Outcome of a call: a returned value or a raised exception, with the     *)
(* number of device buffers allocated (rmm.device_array) and of storage /  *)
(* regex primitives invoked until then.                                    *)

Returned(value, allocs, prims) ==
    [outcome |-> "ok", value |-> value, allocs |-> allocs, prims |-> prims]

Raised(exc, msg, allocs, prims) ==
    [outcome |-> exc, msg |-> msg, allocs |-> allocs, prims |-> prims]

(* The messages "`<param>` parameter is not yet supported" and             *)
(* "`<param>` parameter is not supported": the parameter named, and the    *)
(* rest of the text.                                                       *)
NotYetSupported(param) ==
    [param |-> param, text |-> "parameter is not yet supported"]

NotSupported(param) ==
    [param |-> param, text |-> "parameter is not supported"]

(* Series(...) over a string storage or a built column.                    *)
Series(col) == [kind |-> "Series", col |-> col]

DataFrame(cols) == [kind |-> "DataFrame", cols |-> cols]

----------------------------------------------------------------------------
(* The StringMethods facade.                                               *)

(* str_contains without the check of `na`: the argument is ignored.        *)
str_contains_ignoring_na(col, pat, case, flags, na, regex) ==
    IF case # TRUE
    THEN Raised("NotImplementedError", NotYetSupported("case"), 0, 0)
    ELSE IF flags # 0
    THEN Raised("NotImplementedError", NotYetSupported("flags"), 0, 0)
    ELSE LET out  == nv_contains(col.data, pat, regex)
             mask == IF col.null_count > 0 THEN col.mask ELSE None
         IN  Returned(Series(build_column(out, "bool", mask)), 1, 1)

str_contains(col, pat, case, flags, na, regex) ==
    IF case # TRUE
    THEN Raised("NotImplementedError", NotYetSupported("case"), 0, 0)
    ELSE IF flags # 0
    THEN Raised("NotImplementedError", NotYetSupported("flags"), 0, 0)
    ELSE IF na # "np.nan"
    THEN Raised("NotImplementedError", NotYetSupported("na"), 0, 0)
    ELSE LET out  == nv_contains(col.data, pat, regex)
             mask == IF col.null_count > 0 THEN col.mask ELSE None
         IN  Returned(Series(build_column(out, "bool", mask)), 1, 1)

(* str_len when the input's mask is not handed on.                         *)
str_len_unmasked(col) ==
    Returned(Series(build_column(nv_len(col.data), "int32", None)), 1, 1)

str_len(col) ==
    LET out  == nv_len(col.data)
        mask == IF col.null_count > 0 THEN col.mask ELSE None
    IN  Returned(Series(build_column(out, "int32", mask)), 1, 1)

str_lower(col) ==
    LET out == StringColumn(nv_lower(col.data))
    IN  Returned(Series(out), InitAllocs(out), 1)

(* "Pandas treats 0 as all": the count replace hands to the storage.       *)
replace_count(n) == IF n = 0 THEN -1 ELSE n

str_replace(col, pat, repl, n, case, flags, regex) ==
    IF case # "None"
    THEN Raised("NotImplementedError", NotYetSupported("case"), 0, 0)
    ELSE IF flags # 0
    THEN Raised("NotImplementedError", NotYetSupported("flags"), 0, 0)
    ELSE LET n1  == replace_count(n)
             out == StringColumn(nv_replace(col.data, pat, repl, n1, regex))
         IN  Returned(Series(out), InitAllocs(out), 1)

str_extract(col, groups, flags, expand) ==
    IF flags # 0
    THEN Raised("NotImplementedError", NotYetSupported("flags"), 0, 0)
    ELSE LET out  == nv_extract(col.data, groups)
             cols == [k \in 1..Len(out) |-> StringColumn(out[k])]
             allocs == Cardinality({k \in 1..Len(out) : cols[k].null_count > 0})
         IN  IF Len(out) = 1 /\ expand = FALSE
             THEN Returned(Series(cols[1]), allocs, 1)
             ELSE Returned(DataFrame(cols), allocs, 1)

(* split_count when a count of 0 is handed on as it is.                    *)
split_count_unchanged(n) == n

(* "Pandas treats 0 as all": the count split hands to the storage.  None   *)
(* is not equal to 0 and is handed on as it is.                            *)
split_count(n) == IF n.some /\ n.v = 0 THEN SomeInt(-1) ELSE n

str_split(col, pat, n, expand) ==
    IF expand # TRUE
    THEN Raised("NotImplementedError", NotSupported("expand"), 0, 0)
    ELSE LET n1   == split_count(n)
             out  == nv_split(col.data, pat, nv_count(n1))
             cols == [k \in 1..Len(out) |-> StringColumn(out[k])]
             allocs == Cardinality({k \in 1..Len(out) : cols[k].null_count > 0})
         IN  Returned(DataFrame(cols), allocs, 1)

----------------------------------------------------------------------------------------------------------------------------------------
(* Numeric casts.                                                          *)

IsDigit(c) == c >= 48 /\ c <= 57

RECURSIVE DecimalValue(_)
DecimalValue(s) ==
    IF s = <<>> THEN 0
    ELSE 10 * DecimalValue(SubSeq(s, 1, Len(s) - 1)) + (s[Len(s)] - 48)

(* Whether a string parses as a value of the type the primitive targets:   *)
(* a non-empty digit string for the integer and float primitives; no       *)
(* string over Chars is a timestamp.                                       *)
Parses(s, str_dtype) ==
    IF str_dtype \in {"int32", "int64", "float64"}
    THEN s # <<>> /\ \A i \in 1..Len(s) : IsDigit(s[i])
    ELSE FALSE

(* stoi / stol / stod / timestamp2int (devptr): parses every non-null row  *)
(* into the output array; a non-null row that does not parse fails the     *)
(* whole operation; a null row is skipped.                                 *)
nv_to_numeric(d, str_dtype) ==
    IF \E i \in 1..Len(d) : d[i].valid /\ ~Parses(d[i].s, str_dtype)
    THEN [ok |-> FALSE, out |-> <<>>]
    ELSE [ok |-> TRUE,
          out |-> [i \in 1..Len(d) |->
                      IF d[i].valid THEN DecimalValue(d[i].s) ELSE 0]]

DtypeBits(dtype) ==
    CASE dtype = "int8" -> 8
      [] dtype = "int16" -> 16
      [] dtype = "int32" -> 32
      [] OTHER -> 64

(* Column.astype to a signed integer type of the given width: wraps.  The  *)
(* parsed values are below 2^31, so only the narrow types can wrap.        *)
WrapSigned(v, bits) ==
    IF bits >= 32 THEN v
    ELSE LET m == v % Pow2(bits)
         IN  IF m >= Pow2(bits - 1) THEN m - Pow2(bits) ELSE m

astype(values, out_dtype) ==
    IF out_dtype = "float64" THEN values
    ELSE [i \in 1..Len(values) |-> WrapSigned(values[i], DtypeBits(out_dtype))]

(* CastSetsMask when the cast forgets the mask.                            *)
CastSetsMask_never(col) == FALSE

(* Whether the cast output carries the storage's validity mask.            *)
CastSetsMask(col) == col.null_count > 0

as_numerical_column(col, dtype) ==
    LET mem_dtype == IF dtype \in {"int8", "int16"} THEN "int32"
                     ELSE IF dtype = "datetime64[ms]" THEN "int64"
                     ELSE dtype
        str_dtype == IF dtype \in {"int8", "int16"} THEN "int32" ELSE dtype
        parsed    == nv_to_numeric(col.data, str_dtype)
    IN  IF ~parsed.ok
        THEN Raised("ParseFailure", [dtype |-> str_dtype], 1, 1)
        ELSE IF CastSetsMask(col)
        THEN Returned(
                 build_column(
                     astype(parsed.out, dtype), dtype,
                     Buffer(set_null_bitmask(
                         col.data, calc_chunk_size(Len(col.data), mask_bitsize)))),
                 2, 2)
        ELSE Returned(build_column(astype(parsed.out, dtype), dtype, None), 1, 1)

----------------------------------------------------------------------------
(* fillna.                                                                 *)

(* nvstrings.fillna(repl): each null row takes the literal (repl a         *)
(* string) or the same row of repl (repl a storage); other rows stay.      *)
nv_fillna_scalar(d, s) ==
    [i \in 1..Len(d) |-> IF d[i].valid THEN d[i] ELSE Row(s)]

nv_fillna_strings(d, f) ==
    [i \in 1..Len(d) |-> IF d[i].valid THEN d[i] ELSE f[i]]

(* Column.replace(mask=..) / (data=..): a new instance of the same type built from    *)
(* the receiver's fields with the given ones replaced.  For a StringColumn *)
(* the constructor takes the mask from the storage, whatever mask is given.*)
column_replace_mask(col, mask) == StringColumn(col.data)

column_replace_data(col, data) == StringColumn(data)

(* Column._mimic_inplace(result, inplace): with inplace the receiver takes *)
(* over the result's storage, mask and null count (its other attributes    *)
(* stay) and the call returns nothing.                                     *)
mimic_inplace_self(col, result, inplace) ==
    IF inplace
    THEN [col EXCEPT !.data = result.data, !.mask = result.mask,
                     !.null_count = result.null_count]
    ELSE col

mimic_inplace_value(result, inplace) ==
    IF inplace THEN [kind |-> "NoneType"] ELSE [kind |-> "StringColumn", col |-> result]

(* The storage a fill value is applied as.  A fill value is a scalar       *)
(* string, a Series over a StringColumn, or something else.                *)
FillStr(s) == [kind |-> "str", s |-> s, data |-> <<>>]

FillSeries(d) == [kind |-> "Series[str]", s |-> <<>>, data |-> d]

FillOther == [kind |-> "int", s |-> <<>>, data |-> <<>>]

fillna_filled(col, fill_value) ==
    IF fill_value.kind = "str"
    THEN nv_fillna_scalar(col.data, fill_value.s)
    ELSE nv_fillna_strings(col.data, SubSeq(fill_value.data, 1, Len(col.data)))

(* The exception fillna raises for this fill value, "" when it raises     *)
(* none.                                                                   *)
fillna_check(col, fill_value) ==
    IF fill_value.kind \notin {"str", "Series[str]"} THEN "TypeError"
    ELSE IF fill_value.kind = "Series[str]" /\ Len(fill_value.data) < Len(col.data)
    THEN "ValueError"
    ELSE ""

(* fillna_result when the filled storage is dropped for the receiver's.    *)
fillna_result_unfilled(col, fill_value) == StringColumn(col.data)

(* The column fillna builds: result = StringColumn(filled_data), then      *)
(* result.replace(mask=None).                                              *)
fillna_result(col, fill_value) ==
    column_replace_mask(StringColumn(fillna_filled(col, fill_value)), None)

fillna(col, fill_value, inplace) ==
    IF fillna_check(col, fill_value) = "TypeError"
    THEN Raised("TypeError", "fill_value must be a string or a string series", 0, 0)
    ELSE IF fillna_check(col, fill_value) = "ValueError"
    THEN Raised("ValueError",
                "fill value series must be of same or greater length than the series to be filled",
                0, 0)
    ELSE LET result == fillna_result(col, fill_value)
         IN  Returned(mimic_inplace_value(result, inplace),
                      2 * InitAllocs(result), 1)

(* The receiver after the call.                                            *)
fillna_self(col, fill_value, inplace) ==
    IF fillna_check(col, fill_value) = ""
    THEN mimic_inplace_self(col, fillna_result(col, fill_value), inplace)
    ELSE col

----------------------------------------------------------------------------
(* Export to offsets / chars / validity buffers.                           *)

(* nvstrings.to_offsets(sbuf, obuf, nbuf): fills the caller's buffers with *)
(* the flat chars, the N+1 offsets and the packed validity bitmap.         *)
nv_to_offsets(d, sbuf_size, obuf_size, nbuf_size) ==
    [sbuf |-> SubSeq(Concat([i \in 1..Len(d) |-> d[i].s]), 1, sbuf_size),
     obuf |-> [k \in 1..obuf_size |-> SumLen(SubSeq(d, 1, k - 1))],
     nbuf |-> set_null_bitmask(d, nbuf_size)]

(* ArrowIsNull when any null makes the array null-typed.                   *)
ArrowIsNull_any_null(col) == col.null_count > 0

(* The branch to_arrow takes: a null-typed array or a string array.        *)
ArrowIsNull(col) == col.null_count = Len(col.data)

to_arrow(col) ==
    LET mask_size == calc_chunk_size(Len(col.data), mask_bitsize)
        b == nv_to_offsets(col.data, ByteCount(col.data), Len(col.data) + 1, mask_size)
    IN  IF ArrowIsNull(col)
        THEN Returned([type |-> "null", length |-> Len(col.data),
                       null_count |-> col.null_count], 0, 1)
        ELSE Returned([type |-> "string", length |-> Len(col.data),
                       offsets |-> b.obuf, chars |-> b.sbuf, validity |-> b.nbuf,
                       null_count |-> NullCount(col.data)], 0, 1)

----------------------------------------------------------------------------
(* serialize / deserialize.                                                *)

(* rmm.device_array(n, dtype) once filled: dtype.str, shape and elements.  *)
DeviceArray(dtype, elems) == [dtype |-> dtype, shape |-> Len(elems), elems |-> elems]

SubHeader(item) == [dtype |-> item.dtype, shape |-> item.shape]

(* FrameOrder with chars and validity swapped.                             *)
FrameOrder_chars_first(nbuf, sbuf, obuf) == <<sbuf, nbuf, obuf>>

(* The order in which serialize emits the three buffers.                   *)
FrameOrder(nbuf, sbuf, obuf) == <<nbuf, sbuf, obuf>>

serialize(col) ==
    LET mask_size == calc_chunk_size(Len(col.data), mask_bitsize)
        b == nv_to_offsets(col.data, ByteCount(col.data), Len(col.data) + 1, mask_size)
        frames == FrameOrder(DeviceArray("|i1", b.nbuf),
                             DeviceArray("|i1", b.sbuf),
                             DeviceArray("<i4", b.obuf))
        header == [null_count  |-> col.null_count,
                   type        |-> "StringColumn",
                   nvstrings   |-> Len(col.data),
                   subheaders  |-> [k \in 1..Len(frames) |-> SubHeader(frames[k])],
                   frame_count |-> Len(frames)]
    IN  Returned([header |-> header, frames |-> frames], 3, 1)

ItemSize(dtype) == IF dtype = "<i4" THEN 4 ELSE 1

NBytes(frame) == frame.shape * ItemSize(frame.dtype)

(* The kinds of object a transport hands to deserialize as a frame.        *)
FrameKinds == {"memoryview", "ndarray", "device", "region"}

(* The loop over the frames, from frame i on.  `dtype` is the loop's local *)
(* of that name: bound only once a memoryview frame has been seen.         *)
RECURSIVE DeserializeFrames(_, _, _, _, _, _)
DeserializeFrames(header, frames, kinds, i, dtype, arrays) ==
    IF i > Len(frames) THEN [exc |-> "", arrays |-> arrays]
    ELSE IF kinds[i] = "memoryview"
    THEN DeserializeFrames(header, frames, kinds, i + 1,
                           header.subheaders[i].dtype, Append(arrays, frames[i].elems))
    ELSE IF kinds[i] = "region"
    THEN IF dtype = "unbound"
         THEN [exc |-> "UnboundLocalError", arrays |-> arrays]
         ELSE IF NBytes(frames[i]) % ItemSize(dtype) # 0
         THEN [exc |-> "ValueError", arrays |-> arrays]
         ELSE DeserializeFrames(header, frames, kinds, i + 1, dtype,
                                Append(arrays, frames[i].elems))
    ELSE DeserializeFrames(header, frames, kinds, i + 1, dtype,
                           Append(arrays, frames[i].elems))

Bit(byte, i) == (byte \div Pow2(i)) % 2 = 1

(* nvstrings.from_offsets(sbuf, obuf, scount, nbuf, ncount): the storage   *)
(* of scount rows delimited by obuf in sbuf, null where nbuf's bit is 0.   *)
nv_from_offsets(sbuf, obuf, scount, nbuf, ncount) ==
    [i \in 1..scount |->
        IF Bit(nbuf[((i - 1) \div mask_bitsize) + 1], (i - 1) % mask_bitsize)
        THEN Row(SubSeq(sbuf, obuf[i] + 1, obuf[i + 1]))
        ELSE NullRow]

(* Which of the received arrays deserialize hands on as chars, offsets and *)
(* validity (1-based positions in the frame list).                         *)
CharsFrame == 2

OffsetsFrame == 3

ValidityFrame == 1

deserialize(header, frames, kinds) ==
    LET got == DeserializeFrames(header, frames, kinds, 1, "unbound", <<>>)
    IN  IF got.exc # ""
        THEN Raised(got.exc, "dtype", Len(got.arrays), 0)
        ELSE Returned([kind |-> "nvstrings",
                       data |-> nv_from_offsets(
                                   got.arrays[CharsFrame], got.arrays[OffsetsFrame],
                                   header.nvstrings, got.arrays[ValidityFrame],
                                   header.null_count)],
                      Cardinality({k \in 1..Len(frames) :
                                      kinds[k] \in {"memoryview", "region"}}), 1)

----------------------------------------------------------------------------
(* Sorting.                                                                *)

(* Lexicographic order on byte strings.                                    *)
RECURSIVE LexLess(_, _)
LexLess(a, b) ==
    IF b = <<>> THEN FALSE
    ELSE IF a = <<>> THEN TRUE
    ELSE IF Head(a) # Head(b) THEN Head(a) < Head(b)
    ELSE LexLess(Tail(a), Tail(b))

(* nvstrings.order(2, asc, nullfirst, devptr): the permutations (1-based)  *)
(* that sort the rows by bytes, nulls first or last as nullfirst says,     *)
(* whatever asc is.  Equal rows may come in any order.                     *)
nv_order(d, asc, nullfirst) ==
    {p \in Permutations(1..Len(d)) :
        \A i, j \in 1..Len(d) :
            i < j =>
                LET x == d[p[i]]
                    y == d[p[j]]
                IN  /\ (x.valid /\ ~y.valid) => ~nullfirst
                    /\ (~x.valid /\ y.valid) => nullfirst
                    /\ (x.valid /\ y.valid) =>
                           IF asc THEN ~LexLess(y.s, x.s) ELSE ~LexLess(x.s, y.s)}

(* NullFirstOf with the two positions exchanged.                           *)
NullFirstOf_swapped(na_position) == na_position = "last"

(* nullfirst as sort_by_values derives it from na_position.                *)
NullFirstOf(na_position) == na_position = "first"

(* The results sort_by_values may return: (col_keys, col_inds).            *)
sort_by_values(col, ascending, na_position) ==
    IF na_position \notin {"last", "first"}
    THEN {Raised("UnboundLocalError", "nullfirst", 1, 0)}
    ELSE {LET inds == [i \in 1..Len(col.data) |-> p[i] - 1]
          IN  Returned([keys |-> StringColumn(
                                    [i \in 1..Len(inds) |-> col.data[inds[i] + 1]]),
                        inds |-> build_column(inds, "int32", None)],
                       1, 1) :
          p \in nv_order(col.data, ascending, NullFirstOf(na_position))}

----------------------------------------------------------------------------
(* Concatenation.                                                          *)

(* An optional string argument (sep, na_rep).                              *)
NoStr == [some |-> FALSE, s |-> <<>>]

SomeStr(s) == [some |-> TRUE, s |-> s]

RECURSIVE JoinStrs(_, _)
JoinStrs(ss, sep) ==
    IF ss = <<>> THEN <<>>
    ELSE IF Len(ss) = 1 THEN ss[1]
    ELSE ss[1] \o sep \o JoinStrs(Tail(ss), sep)

RECURSIVE SelectValid(_, _)
SelectValid(d, na_rep) ==
    IF d = <<>> THEN <<>>
    ELSE (IF Head(d).valid THEN <<Head(d).s>>
          ELSE IF na_rep.some THEN <<na_rep.s>> ELSE <<>>)
         \o SelectValid(Tail(d), na_rep)

(* nvstrings.cat(others=None, sep, na_rep): one row, the rows joined with  *)
(* sep; a null row is left out, or stands as na_rep when that is given.    *)
nv_join(d, sep, na_rep) == <<Row(JoinStrs(SelectValid(d, na_rep), sep.s))>>

(* nvstrings.cat(others, sep, na_rep): row-wise; a row with a null operand *)
(* is null, unless na_rep is given and then stands for the null operand.   *)
nv_cat(d, o, sep, na_rep) ==
    [i \in 1..Len(d) |->
        IF (d[i].valid /\ o[i].valid) \/ na_rep.some
        THEN Row((IF d[i].valid THEN d[i].s ELSE na_rep.s) \o sep.s
                 \o (IF o[i].valid THEN o[i].s ELSE na_rep.s))
        ELSE NullRow]

(* The forms of the `others` argument.                                     *)
OthersNone == [kind |-> "None", data |-> <<>>, frames |-> <<>>]

OthersSeries(d) == [kind |-> "Series", data |-> d, frames |-> <<>>]

OthersPandas(d) == [kind |-> "pd.Series", data |-> d, frames |-> <<>>]

OthersList(d) == [kind |-> "list[str]", data |-> d, frames |-> <<>>]

OthersNested(fs) == [kind |-> "list[list]", data |-> <<>>, frames |-> fs]

(* The loop over a nested `others`: the first frame is the accumulator,    *)
(* every later one is concatenated onto it.                                *)
RECURSIVE CatFrames(_, _, _, _)
CatFrames(first, frames, sep, na_rep) ==
    IF frames = <<>> THEN first
    ELSE CatFrames(nv_cat(first, Head(frames), sep, na_rep), Tail(frames), sep, na_rep)

(* cat_others when only the first frame of a nested `others` is taken.     *)
cat_others_first_frame(others, sep, na_rep) ==
    IF others.kind = "None" THEN [none |-> TRUE, data |-> <<>>]
    ELSE IF others.kind = "list[list]"
    THEN [none |-> FALSE, data |-> Head(others.frames)]
    ELSE [none |-> FALSE, data |-> others.data]

(* `others` once normalized: None, or one storage.                         *)
cat_others(others, sep, na_rep) ==
    IF others.kind = "None" THEN [none |-> TRUE, data |-> <<>>]
    ELSE IF others.kind = "list[list]"
    THEN [none |-> FALSE,
          data |-> CatFrames(Head(others.frames), Tail(others.frames), sep, na_rep)]
    ELSE [none |-> FALSE, data |-> others.data]

(* CatReturnsScalar without the test that others is None.                  *)
CatReturnsScalar_any_single_row(out_len, others_is_none) == out_len = 1

(* Whether cat unwraps its one-row result into a scalar.                   *)
CatReturnsScalar(out_len, others_is_none) == out_len = 1 /\ others_is_none

str_cat(col, others, sep, na_rep) ==
    LET o   == cat_others(others, sep, na_rep)
        out == StringColumn(IF o.none THEN nv_join(col.data, sep, na_rep)
                            ELSE nv_cat(col.data, o.data, sep, na_rep))
        prims == 1 + (IF others.kind = "list[list]" THEN Len(others.frames) - 1 ELSE 0)
    IN  IF CatReturnsScalar(Len(out.data), o.none)
        THEN Returned([kind |-> "scalar", row |-> out.data[1]], InitAllocs(out), prims)
        ELSE Returned(Series(out), InitAllocs(out), prims)

----------------------------------------------------------------------------
(* Binary operators and find_and_replace.                                  *)

(* The other operand of a binary operator: a column of some type.          *)
StringOperand(d) == [type |-> "StringColumn", data |-> d]

NumericalOperand == [type |-> "NumericalColumn", data |-> <<>>]

OperatorNotSupported(binop, t1, t2) ==
    [binop |-> binop, types |-> <<t1, t2>>,
     text |-> "operator not supported between"]

binary_operator(col, binop, other, reflect) ==
    LET me  == StringOperand(col.data)
        lhs == IF reflect THEN other ELSE me
        rhs == IF reflect THEN me ELSE other
    IN  IF rhs.type = "StringColumn" /\ binop = "add"
        THEN IF lhs.type = "StringColumn"
             THEN Returned([kind |-> "nvstrings",
                            data |-> nv_cat(lhs.data, rhs.data, NoStr, NoStr)], 0, 1)
             ELSE Raised("AttributeError", "cat", 0, 0)
        ELSE Raised("TypeError",
                    OperatorNotSupported(binop, "StringColumn", rhs.type), 0, 0)

(* IsSinglePair when only equal, non-zero lengths are required.            *)
IsSinglePair_equal_lengths(to_replace, replacement) ==
    Len(to_replace) = Len(replacement) /\ Len(to_replace) >= 1

(* Whether find_and_replace takes the replacing branch.                    *)
IsSinglePair(to_replace, replacement) == Len(to_replace) = 1 /\ Len(replacement) = 1

find_and_replace(col, to_replace, replacement) ==
    IF IsSinglePair(to_replace, replacement)
    THEN LET result == nv_replace(col.data, to_replace[1], replacement[1], -1, TRUE)
         IN  Returned([kind |-> "StringColumn",
                       col |-> column_replace_data(col, result)],
                      2 + InitAllocs(StringColumn(result)), 1)
    ELSE Raised("NotImplementedError",
                "StringColumn currently only supports replacing single values", 2, 0)

----------------------------------------------------------------------------
(* Copies, casts to the column's own type, and the lazily computed         *)
(* attributes: the category, its per-row indices, and the two monotonicity *)
(* flags.                                                                  *)

(* A value that is a newly constructed StringColumn.                       *)
NewColumn(col) == [kind |-> "StringColumn", col |-> col]

(* A value that is the receiver itself, not a new object.                  *)
Receiver(col) == [kind |-> "self", col |-> col]

(* The outcome of a call that ran nvcategory.from_strings `builds` times.  *)
ReturnedBuilding(value, allocs, prims, builds) ==
    [outcome |-> "ok", value |-> value, allocs |-> allocs, prims |-> prims,
     builds |-> builds]

(* copy(): the constructor is called on the receiver's own storage and     *)
(* null count.                                                             *)
copy(col) ==
    LET out == StringColumnInit(col.data, col.null_count)
    IN  Returned(NewColumn(out), InitAllocs(out), 0)

(* as_string_column with a copy for its result.                            *)
as_string_column_copy(col) ==
    Returned(NewColumn(StringColumnInit(col.data, col.null_count)), 0, 0)

as_string_column(col) == Returned(Receiver(col), 0, 0)

(* The strings of S in ascending byte order.                               *)
RECURSIVE SortedKeys(_)
SortedKeys(S) ==
    IF S = {} THEN <<>>
    ELSE LET m == CHOOSE x \in S : \A y \in S : ~LexLess(y, x)
         IN  <<m>> \o SortedKeys(S \ {m})

KeyIndex(keys, s) == (CHOOSE k \in 1..Len(keys) : keys[k] = s) - 1

(* nvcategory.from_strings(data): the distinct strings of the valid rows   *)
(* (keys) and, per row, the 0-based position of its string among the keys  *)
(* (values; -1 for a null row).                                            *)
from_strings(d) ==
    LET keys == SortedKeys({d[i].s : i \in {j \in 1..Len(d) : d[j].valid}})
    IN  [built  |-> TRUE,
         keys   |-> keys,
         values |-> [i \in 1..Len(d) |->
                        IF d[i].valid THEN KeyIndex(keys, d[i].s) ELSE -1]]

(* The nvcategory property: built from the storage when the attribute is   *)
(* still None, and kept.                                                   *)
nvcategory_self(col) ==
    IF ~col.nvcategory.built
    THEN [col EXCEPT !.nvcategory = from_strings(col.data)]
    ELSE col

nvcategory_builds(col) == IF ~col.nvcategory.built THEN 1 ELSE 0

nvcategory(col) ==
    ReturnedBuilding(nvcategory_self(col).nvcategory, 0, 0, nvcategory_builds(col))

(* The indices property: when the attribute is still None, the category's  *)
(* values are written into a new buffer, which is kept.                    *)
indices_self(col) ==
    IF ~col.indices.present
    THEN [nvcategory_self(col) EXCEPT
              !.indices = Buffer(nvcategory_self(col).nvcategory.values)]
    ELSE col

indices(col) ==
    IF ~col.indices.present
    THEN ReturnedBuilding(indices_self(col).indices, 1, 1, nvcategory_builds(col))
    ELSE ReturnedBuilding(col.indices, 0, 0, 0)

(* unique(): a new column over the keys of a category built for the call.  *)
unique(col) ==
    LET keys == from_strings(col.data).keys
        out  == StringColumn([k \in 1..Len(keys) |-> Row(keys[k])])
    IN  ReturnedBuilding(NewColumn(out), InitAllocs(out), 1, 1)

(* is_unique: len(self.unique()) == len(self).                             *)
is_unique(col) ==
    LET u == unique(col)
    IN  ReturnedBuilding(Len(u.value.col.data) = Len(col.data),
                         u.allocs, u.prims, u.builds)

(* _string_column_binop(self[1:], self[:-1], op).all(): every row compares *)
(* as op says with the row before it; a comparison with a null row yields  *)
(* null and is left out.                                                   *)
all_adjacent(d, op) ==
    \A i \in 1..(Len(d) - 1) :
        (d[i].valid /\ d[i + 1].valid) =>
            IF op = "ge" THEN ~LexLess(d[i + 1].s, d[i].s)
            ELSE ~LexLess(d[i].s, d[i + 1].s)

(* The is_monotonic_increasing / is_monotonic_decreasing properties: the   *)
(* flag is computed when the attribute does not exist yet, and kept.       *)
is_monotonic_increasing_self(col) ==
    IF ~col.is_monotonic_increasing.set
    THEN [col EXCEPT !.is_monotonic_increasing = Attr(all_adjacent(col.data, "ge"))]
    ELSE col

is_monotonic_increasing(col) ==
    Returned(is_monotonic_increasing_self(col).is_monotonic_increasing.v,
             IF ~col.is_monotonic_increasing.set THEN 1 ELSE 0,
             IF ~col.is_monotonic_increasing.set THEN 1 ELSE 0)

is_monotonic_decreasing_self(col) ==
    IF ~col.is_monotonic_decreasing.set
    THEN [col EXCEPT !.is_monotonic_decreasing = Attr(all_adjacent(col.data, "le"))]
    ELSE col

is_monotonic_decreasing(col) ==
    Returned(is_monotonic_decreasing_self(col).is_monotonic_decreasing.v,
             IF ~col.is_monotonic_decreasing.set THEN 1 ELSE 0,
             IF ~col.is_monotonic_decreasing.set THEN 1 ELSE 0)

----------------------------------------------------------------------------
(* Argument sets.                                                          *)

Pats == {<<97>>, <<49>>}

Repls == {<<49>>}

GroupLists == {<<(<<97>>)>>, <<(<<97>>), (<<49>>)>>}

Counts == {-1, 0, 1}

SplitCounts == {NoInt} \cup {SomeInt(n) : n \in Counts}

FlagValues == {0, 1}

NaValues == {"np.nan", "None"}

CaseValues == {"None", "False"}

Dtypes == {"int8", "int32", "int64", "float64", "datetime64[ms]"}

NaPositions == {"first", "last", "middle"}

Binops == {"add", "mul", "eq"}

OptStrs == {NoStr, SomeStr(<<44>>)}

(* Operand columns: rows that are null or "a".                             *)
OtherStorages(n) == [1..n -> {NullRow, Row(<<97>>)}]

ConstStorages(n) ==
    {[i \in 1..n |-> NullRow], [i \in 1..n |-> Row(<<49>>)], [i \in 1..n |-> Row(<<97>>)]}

OthersArgs(n) ==
    {OthersNone}
    \cup {OthersSeries(d) : d \in OtherStorages(n)}
    \cup {OthersPandas(d) : d \in ConstStorages(n)}
    \cup {OthersList(d) : d \in ConstStorages(n)}
    \cup {OthersNested(<<d>>) : d \in ConstStorages(n)}
    \cup {OthersNested(<<d, e>>) : d \in ConstStorages(n), e \in ConstStorages(n)}

FillValues(n) ==
    {FillStr(<<97>>), FillOther}
    \cup {FillSeries(d) :
            d \in UNION {OtherStorages(m) : m \in {k \in {n - 1, n} : k >= 0}}}
    \cup {FillSeries(d) : d \in ConstStorages(n + 1)}

Operands(n) == {NumericalOperand} \cup {StringOperand(d) : d \in ConstStorages(n)}

ValueLists == {<<>>, <<(<<97>>)>>, <<(<<49>>)>>, <<(<<97>>), (<<49>>)>>}

Call(op, args, res) == [op |-> op, args |-> args, res |-> res]

NoCall == Call("idle", <<>>, Returned(<<>>, 0, 0))

----------------------------------------------------------------------------
(* The state machine.  A call is made when no result is pending; its       *)
(* result stays in `last` until the caller drops it (or, for the frames of *)
(* serialize, hands them to deserialize).                                  *)

Init ==
    /\ self \in {StringColumn(d) : d \in Storages}
    /\ last = NoCall

Idle == last.op = "idle"

DoContains ==
    /\ Idle
    /\ \E pat \in Pats, case \in BOOLEAN, flags \in FlagValues,
          na \in NaValues, regex \in BOOLEAN :
        last' = Call("contains",
                     [pat |-> pat, case |-> case, flags |-> flags,
                      na |-> na, regex |-> regex],
                     str_contains(self, pat, case, flags, na, regex))
    /\ UNCHANGED self

DoReplace ==
    /\ Idle
    /\ \E pat \in Pats, repl \in Repls, n \in Counts, case \in CaseValues,
          flags \in FlagValues, regex \in BOOLEAN :
        last' = Call("replace",
                     [pat |-> pat, repl |-> repl, n |-> n, case |-> case,
                      flags |-> flags, regex |-> regex, receiver |-> self],
                     str_replace(self, pat, repl, n, case, flags, regex))
    /\ UNCHANGED self

DoExtract ==
    /\ Idle
    /\ \E groups \in GroupLists, flags \in FlagValues, expand \in BOOLEAN :
        last' = Call("extract",
                     [pat |-> groups, flags |-> flags, expand |-> expand],
                     str_extract(self, groups, flags, expand))
    /\ UNCHANGED self

DoSplit ==
    /\ Idle
    /\ \E pat \in Pats, n \in SplitCounts, expand \in BOOLEAN :
        last' = Call("split",
                     [pat |-> pat, n |-> n, expand |-> expand],
                     str_split(self, pat, n, expand))
    /\ UNCHANGED self

DoCat ==
    /\ Idle
    /\ \E others \in OthersArgs(Len(self.data)), sep \in OptStrs, na_rep \in OptStrs :
        last' = Call("cat",
                     [others |-> others, sep |-> sep, na_rep |-> na_rep,
                      receiver |-> self],
                     str_cat(self, others, sep, na_rep))
    /\ UNCHANGED self

DoAsNumericalColumn ==
    /\ Idle
    /\ \E dtype \in Dtypes :
        last' = Call("as_numerical_column", [dtype |-> dtype, receiver |-> self],
                     as_numerical_column(self, dtype))
    /\ UNCHANGED self

DoFillna ==
    /\ Idle
    /\ \E fill_value \in FillValues(Len(self.data)), inplace \in BOOLEAN :
        /\ last' = Call("fillna",
                        [fill_value |-> fill_value, inplace |-> inplace,
                         receiver |-> self],
                        fillna(self, fill_value, inplace))
        /\ self' = fillna_self(self, fill_value, inplace)

DoToArrow ==
    /\ Idle
    /\ last' = Call("to_arrow", <<>>, to_arrow(self))
    /\ UNCHANGED self

DoSerialize ==
    /\ Idle
    /\ last' = Call("serialize", <<>>, serialize(self))
    /\ UNCHANGED self

DoDeserialize ==
    /\ last.op = "serialize"
    /\ \E kinds \in [1..last.res.value.header.frame_count -> FrameKinds] :
        last' = Call("deserialize",
                     [header |-> last.res.value.header,
                      frames |-> last.res.value.frames, kinds |-> kinds],
                     deserialize(last.res.value.header, last.res.value.frames, kinds))
    /\ UNCHANGED self

DoSortByValues ==
    /\ Idle
    /\ \E ascending \in BOOLEAN, na_position \in NaPositions :
        \E res \in sort_by_values(self, ascending, na_position) :
            last' = Call("sort_by_values",
                         [ascending |-> ascending, na_position |-> na_position,
                          receiver |-> self], res)
    /\ UNCHANGED self

DoBinaryOperator ==
    /\ Idle
    /\ \E binop \in Binops, rhs \in Operands(Len(self.data)), reflect \in BOOLEAN :
        last' = Call("binary_operator",
                     [binop |-> binop, rhs |-> rhs, reflect |-> reflect],
                     binary_operator(self, binop, rhs, reflect))
    /\ UNCHANGED self

DoFindAndReplace ==
    /\ Idle
    /\ \E to_replace \in ValueLists, replacement \in ValueLists :
        last' = Call("find_and_replace",
                     [to_replace |-> to_replace, replacement |-> replacement,
                      receiver |-> self],
                     find_and_replace(self, to_replace, replacement))
    /\ UNCHANGED self

DoLen ==
    /\ Idle
    /\ last' = Call("len", [receiver |-> self], str_len(self))
    /\ UNCHANGED self

DoLower ==
    /\ Idle
    /\ last' = Call("lower", [receiver |-> self], str_lower(self))
    /\ UNCHANGED self

DoCopy ==
    /\ Idle
    /\ last' = Call("copy", [receiver |-> self], copy(self))
    /\ UNCHANGED self

DoAsStringColumn ==
    /\ Idle
    /\ last' = Call("as_string_column", [receiver |-> self], as_string_column(self))
    /\ UNCHANGED self

DoNvcategory ==
    /\ Idle
    /\ last' = Call("nvcategory", [receiver |-> self], nvcategory(self))
    /\ self' = nvcategory_self(self)

DoIndices ==
    /\ Idle
    /\ last' = Call("indices", [receiver |-> self], indices(self))
    /\ self' = indices_self(self)

DoUnique ==
    /\ Idle
    /\ last' = Call("unique", [receiver |-> self], unique(self))
    /\ UNCHANGED self

DoIsUnique ==
    /\ Idle
    /\ last' = Call("is_unique", [receiver |-> self], is_unique(self))
    /\ UNCHANGED self

DoIsMonotonicIncreasing ==
    /\ Idle
    /\ last' = Call("is_monotonic_increasing", [receiver |-> self],
                    is_monotonic_increasing(self))
    /\ self' = is_monotonic_increasing_self(self)

DoIsMonotonicDecreasing ==
    /\ Idle
    /\ last' = Call("is_monotonic_decreasing", [receiver |-> self],
                    is_monotonic_decreasing(self))
    /\ self' = is_monotonic_decreasing_self(self)

(* The caller is done with the result.                                     *)
Drop ==
    /\ ~Idle
    /\ last' = NoCall
    /\ UNCHANGED self

Next ==
    \/ DoContains
    \/ DoReplace
    \/ DoExtract
    \/ DoSplit
    \/ DoCat
    \/ DoAsNumericalColumn
    \/ DoFillna
    \/ DoToArrow
    \/ DoSerialize
    \/ DoDeserialize
    \/ DoSortByValues
    \/ DoBinaryOperator
    \/ DoFindAndReplace
    \/ DoLen
    \/ DoLower
    \/ DoCopy
    \/ DoAsStringColumn
    \/ Drop

Spec == Init /\ [][Next]_vars

(* The calls that return or replace the column, together with the reads of *)
(* the lazily computed attributes, on columns of at most MaxCachedRows     *)
(* rows, each null or one byte long.  (The calls of Spec neither read nor  *)
(* set these attributes.)                                                  *)
MaxCachedRows == 3

CachedStorages ==
    UNION {[1..n -> {NullRow} \cup {Row(<<c>>) : c \in Chars}] : n \in 0..MaxCachedRows}

CacheInit ==
    /\ self \in {StringColumn(d) : d \in CachedStorages}
    /\ last = NoCall

CacheNext ==
    \/ DoFillna
    \/ DoFindAndReplace
    \/ DoCopy
    \/ DoAsNumericalColumn
    \/ DoAsStringColumn
    \/ DoSortByValues
    \/ DoReplace
    \/ DoLower
    \/ DoCat
    \/ DoNvcategory
    \/ DoIndices
    \/ DoUnique
    \/ DoIsUnique
    \/ DoIsMonotonicIncreasing
    \/ DoIsMonotonicDecreasing
    \/ Drop

CacheSpec == CacheInit /\ [][CacheNext]_vars

----------------------------------------------------------------------------
(* Properties.                                                             *)

FailedFast(res) ==
    res.outcome = "NotImplementedError" /\ res.allocs = 0 /\ res.prims = 0

FailedFastNaming(res, param) == FailedFast(res) /\ res.msg.param = param

(* C1, as stated: for contains, replace, extract and split, each           *)
(* unsupported parameter that is passed with a non-default value makes the *)
(* call fail with a NotImplementedError whose message names that           *)
(* parameter, before any device buffer is allocated or primitive invoked.  *)
C1_EveryNonDefaultIsNamed ==
    /\ last.op = "contains" =>
          /\ last.args.case # TRUE => FailedFastNaming(last.res, "case")
          /\ last.args.flags # 0 => FailedFastNaming(last.res, "flags")
          /\ last.args.na # "np.nan" => FailedFastNaming(last.res, "na")
    /\ last.op = "replace" =>
          /\ last.args.case # "None" => FailedFastNaming(last.res, "case")
          /\ last.args.flags # 0 => FailedFastNaming(last.res, "flags")
    /\ last.op = "extract" =>
          (last.args.flags # 0 => FailedFastNaming(last.res, "flags"))
    /\ last.op = "split" =>
          (last.args.expand # TRUE => FailedFastNaming(last.res, "expand"))

(* The first parameter, in the order the operation checks them, that has a *)
(* non-default value; "" when all have their defaults.                     *)
FirstNonDefault(call) ==
    CASE call.op = "contains" ->
            IF call.args.case # TRUE THEN "case"
            ELSE IF call.args.flags # 0 THEN "flags"
            ELSE IF call.args.na # "np.nan" THEN "na" ELSE ""
      [] call.op = "replace" ->
            IF call.args.case # "None" THEN "case"
            ELSE IF call.args.flags # 0 THEN "flags" ELSE ""
      [] call.op = "extract" -> IF call.args.flags # 0 THEN "flags" ELSE ""
      [] call.op = "split" -> IF call.args.expand # TRUE THEN "expand" ELSE ""
      [] OTHER -> ""

(* C1, amended: a call of contains, replace, extract or split with any     *)
(* unsupported parameter at a non-default value fails with a               *)
(* NotImplementedError before any device buffer is allocated or primitive  *)
(* invoked, and the message names the first such parameter in the order    *)
(* case, flags, na (the only one, when there is only one); with all of     *)
(* them at their defaults the call does not fail.                          *)
C1_FirstNonDefaultIsNamed ==
    last.op \in {"contains", "replace", "extract", "split"} =>
        IF FirstNonDefault(last) # ""
        THEN FailedFastNaming(last.res, FirstNonDefault(last))
        ELSE last.res.outcome = "ok"

C1_Witness ==
    /\ last.op = "contains"
    /\ last.args.case = TRUE /\ last.args.flags = 0 /\ last.args.na = "None"
    /\ last.res.outcome = "NotImplementedError"
    /\ Len(self.data) > 0

----------------------------------------------------------------------------
StrDtypeOf(dtype) == IF dtype \in {"int8", "int16"} THEN "int32" ELSE dtype

(* Whether row i (1-based) of a built column is null: the column has a     *)
(* mask and the row's bit in it is 0.                                      *)
IsNullAt(built, i) ==
    /\ built.mask.present
    /\ ~Bit(built.mask.bytes[((i - 1) \div mask_bitsize) + 1], (i - 1) % mask_bitsize)

----------------------------------------------------------------------------
(* The row a fill value provides for row i.                                *)
FillRowAt(fill_value, i) ==
    IF fill_value.kind = "str" THEN Row(fill_value.s) ELSE fill_value.data[i]

FillApplies(call) ==
    /\ call.op = "fillna"
    /\ ~call.args.inplace
    /\ call.args.fill_value.kind \in {"str", "Series[str]"}
    /\ call.args.fill_value.kind = "Series[str]" =>
          Len(call.args.fill_value.data) >= Len(call.args.receiver.data)

FilledRowwise(call) ==
    LET d == call.args.receiver.data
        r == call.res.value.col.data
    IN  /\ call.res.outcome = "ok"
        /\ call.res.value.kind = "StringColumn"
        /\ Len(r) = Len(d)
        /\ \A i \in 1..Len(d) :
              r[i] = IF d[i].valid THEN d[i] ELSE FillRowAt(call.args.fill_value, i)

(* C3, as stated: fillna with a scalar string or a long enough string      *)
(* Series returns a column whose formerly null rows hold the fill value,   *)
(* whose other rows are unchanged, and that has no nulls and no mask.      *)
C3_FilledHasNoNulls ==
    FillApplies(last) =>
        /\ FilledRowwise(last)
        /\ last.res.value.col.null_count = 0
        /\ last.res.value.col.mask = None
        /\ \A i \in 1..Len(last.res.value.col.data) : last.res.value.col.data[i].valid

(* C3, amended: every formerly null row holds the literal or the same row  *)
(* of the fill Series, every other row is unchanged, and the result's      *)
(* nulls are exactly the rows that are null both in the receiver and in    *)
(* the fill Series: null_count counts them and the mask is absent exactly  *)
(* when there are none.  With a scalar, or a Series that is non-null at    *)
(* every null row of the receiver, the result has no nulls and no mask.    *)
C3_FilledNullsAreTheFillsNulls ==
    FillApplies(last) =>
        LET d    == last.args.receiver.data
            r    == last.res.value.col
            left == {i \in 1..Len(d) :
                        ~d[i].valid /\ ~FillRowAt(last.args.fill_value, i).valid}
        IN  /\ FilledRowwise(last)
            /\ r.null_count = Cardinality(left)
            /\ r.mask.present <=> left # {}
            /\ \A i \in 1..Len(d) : ~r.data[i].valid <=> i \in left
            /\ last.args.fill_value.kind = "str" => r.null_count = 0 /\ r.mask = None

C3_Witness ==
    /\ FillApplies(last)
    /\ last.args.fill_value.kind = "Series[str]"
    /\ last.args.receiver.null_count > 0
    /\ last.res.outcome = "ok"
    /\ last.res.value.col.null_count = 0
    /\ \E i \in 1..Len(self.data) : self.data[i].valid

----------------------------------------------------------------------------
(* C4: deserialize of what serialize returned succeeds for every kind of   *)
(* frame object and yields the receiver's rows: same row count, same null  *)
(* count, same strings, nulls at the same positions.                       *)
C4_RoundTrip ==
    last.op = "deserialize" =>
        /\ last.res.outcome = "ok"
        /\ Size(last.res.value.data) = Size(self.data)
        /\ NullCount(last.res.value.data) = self.null_count
        /\ last.res.value.data = self.data

----------------------------------------------------------------------------
(* C5: serialize returns a header with null_count, a type tag, the row     *)
(* count, 3 subheaders and frame_count 3, and the 3 frames validity,       *)
(* chars, offsets in that order, subheader i carrying the dtype and shape  *)
(* of frame i; deserialize reads frame 0 as validity, frame 1 as chars and *)
(* frame 2 as offsets.                                                     *)
C5_WireFormat ==
    /\ last.op = "serialize" =>
          LET h == last.res.value.header
              f == last.res.value.frames
              n == Len(self.data)
          IN  /\ last.res.outcome = "ok"
              /\ h.null_count = self.null_count
              /\ h.type = "StringColumn"
              /\ h.nvstrings = n
              /\ Len(h.subheaders) = 3
              /\ h.frame_count = 3
              /\ Len(f) = 3
              /\ \A k \in 1..3 :
                    /\ h.subheaders[k].dtype = f[k].dtype
                    /\ h.subheaders[k].shape = f[k].shape
                    /\ f[k].shape = Len(f[k].elems)
              /\ f[1].dtype = "|i1"
              /\ f[1].elems = set_null_bitmask(self.data, calc_chunk_size(n, mask_bitsize))
              /\ f[2].dtype = "|i1"
              /\ f[2].elems = Concat([i \in 1..n |-> self.data[i].s])
              /\ f[3].dtype = "<i4"
              /\ f[3].shape = n + 1
              /\ \A k \in 1..(n + 1) : f[3].elems[k] = SumLen(SubSeq(self.data, 1, k - 1))
    /\ (last.op = "deserialize" /\ last.res.outcome = "ok") =>
          LET h == last.args.header
              f == last.args.frames
          IN  \A i \in 1..h.nvstrings :
                 LET row == last.res.value.data[i]
                 IN  /\ row.valid <=> Bit(f[1].elems[((i - 1) \div 8) + 1], (i - 1) % 8)
                     /\ row.valid =>
                           row.s = SubSeq(f[2].elems, f[3].elems[i] + 1, f[3].elems[i + 1])

C5_Witness ==
    /\ last.op = "deserialize"
    /\ last.res.outcome = "ok"
    /\ self.null_count > 0
    /\ ByteCount(self.data) > 1

----------------------------------------------------------------------------
(* C6: to_arrow returns a null-typed array of length N exactly when        *)
(* null_count equals the row count, and otherwise a string array of N rows *)
(* built from the N+1 offsets, the chars buffer of length offsets[N] and   *)
(* the validity bitmap, with the storage's null count.                     *)
C6_ArrowExport ==
    last.op = "to_arrow" =>
        LET a == last.res.value
            d == self.data
            n == Len(self.data)
        IN  /\ last.res.outcome = "ok"
            /\ a.type = "null" <=> self.null_count = n
            /\ a.type \in {"null", "string"}
            /\ a.length = n
            /\ a.type = "string" =>
                  /\ Len(a.offsets) = n + 1
                  /\ a.offsets[1] = 0
                  /\ \A k \in 1..n : a.offsets[k] <= a.offsets[k + 1]
                  /\ Len(a.chars) = a.offsets[n + 1]
                  /\ a.null_count = NullCount(d)
                  /\ \A i \in 1..n :
                        /\ d[i].valid <=>
                              Bit(a.validity[((i - 1) \div 8) + 1], (i - 1) % 8)
                        /\ SubSeq(a.chars, a.offsets[i] + 1, a.offsets[i + 1]) = d[i].s

C6_Witness ==
    /\ last.op = "to_arrow"
    /\ last.res.value.type = "null"
    /\ Len(self.data) > 1

----------------------------------------------------------------------------
(* C7: sort_by_values(ascending, na_position) with na_position 'first' or  *)
(* 'last' returns (keys, indices): indices is a permutation of 0..N-1,     *)
(* keys[i] is the input row at indices[i], the non-null keys are in        *)
(* lexicographic byte order, ascending or descending as asked, and the     *)
(* null rows all come first for 'first' and last for 'last', whatever      *)
(* ascending is.                                                           *)
C7_SortByValues ==
    (last.op = "sort_by_values" /\ last.args.na_position \in {"first", "last"}) =>
        LET n    == Len(self.data)
            keys == last.res.value.keys.data
            inds == last.res.value.inds.values
        IN  /\ last.res.outcome = "ok"
            /\ Len(inds) = n /\ Len(keys) = n
            /\ {inds[i] : i \in 1..n} = 0..(n - 1)
            /\ \A i \in 1..n : keys[i] = self.data[inds[i] + 1]
            /\ \A i, j \in 1..n :
                  (i < j /\ keys[i].valid /\ keys[j].valid) =>
                      IF last.args.ascending
                      THEN ~LexLess(keys[j].s, keys[i].s)
                      ELSE ~LexLess(keys[i].s, keys[j].s)
            /\ \A i, j \in 1..n :
                  (~keys[i].valid /\ keys[j].valid) =>
                      IF last.args.na_position = "first" THEN i < j ELSE j < i

C7_Witness ==
    /\ last.op = "sort_by_values"
    /\ ~last.args.ascending
    /\ last.args.na_position = "last"
    /\ last.res.outcome = "ok"
    /\ self.data = <<Row(<<49>>), NullRow, Row(<<97>>)>>
    /\ last.res.value.keys.data = <<Row(<<97>>), Row(<<49>>), NullRow>>

----------------------------------------------------------------------------
(* C8: cat with others None returns one scalar string, the non-null rows   *)
(* joined with sep (nulls left out when na_rep is unset), not a column;    *)
(* with others given it returns a column with one row per input row, never *)
(* a scalar.                                                               *)
C8_CatScalarOrColumn ==
    last.op = "cat" =>
        /\ last.res.outcome = "ok"
        /\ last.args.others.kind = "None" =>
              /\ last.res.value.kind = "scalar"
              /\ last.res.value.row.valid
              /\ ~last.args.na_rep.some =>
                    last.res.value.row.s =
                        JoinStrs(SelectValid(self.data, NoStr), last.args.sep.s)
        /\ last.args.others.kind # "None" =>
              /\ last.res.value.kind = "Series"
              /\ Len(last.res.value.col.data) = Len(self.data)

C8_Witness ==
    /\ last.op = "cat"
    /\ last.args.others.kind = "None"
    /\ last.args.sep.some
    /\ ~last.args.na_rep.some
    /\ self.data = <<Row(<<97>>), NullRow, Row(<<49>>)>>
    /\ last.res.value = [kind |-> "scalar", row |-> Row(<<97, 44, 49>>)]

----------------------------------------------------------------------------
(* C9: binary_operator returns the row-wise concatenation only for 'add'   *)
(* with both operands string columns; for every other operator and for any *)
(* non-string operand, reflected or not, it raises a TypeError whose       *)
(* message names the operator and the types of both operands.              *)
C9_OnlyAddOfStrings ==
    last.op = "binary_operator" =>
        IF last.args.binop = "add" /\ last.args.rhs.type = "StringColumn"
        THEN /\ last.res.outcome = "ok"
             /\ last.res.value.data =
                   IF last.args.reflect
                   THEN nv_cat(last.args.rhs.data, self.data, NoStr, NoStr)
                   ELSE nv_cat(self.data, last.args.rhs.data, NoStr, NoStr)
        ELSE /\ last.res.outcome = "TypeError"
             /\ last.res.msg.binop = last.args.binop
             /\ {last.res.msg.types[1], last.res.msg.types[2]}
                    = {"StringColumn", last.args.rhs.type}

----------------------------------------------------------------------------
(* C10: find_and_replace replaces only when both arguments have exactly    *)
(* one element, and then returns a new column with the target replaced in  *)
(* every row; for any other lengths it raises NotImplementedError and      *)
(* returns nothing.                                                        *)
C10_SinglePairOnly ==
    last.op = "find_and_replace" =>
        IF Len(last.args.to_replace) = 1 /\ Len(last.args.replacement) = 1
        THEN /\ last.res.outcome = "ok"
             /\ last.res.value.kind = "StringColumn"
             /\ Len(last.res.value.col.data) = Len(self.data)
             /\ \A i \in 1..Len(self.data) :
                   last.res.value.col.data[i] =
                       IF self.data[i].valid
                       THEN Row(ReplaceStr(self.data[i].s, last.args.to_replace[1],
                                           last.args.replacement[1], -1))
                       ELSE NullRow
        ELSE /\ last.res.outcome = "NotImplementedError"
             /\ "value" \notin DOMAIN last.res

C10_Witness ==
    /\ last.op = "find_and_replace"
    /\ last.res.outcome = "ok"
    /\ \E i \in 1..Len(self.data) :
          self.data[i].valid /\ last.res.value.col.data[i] # self.data[i]

----------------------------------------------------------------------------
(* Immutability of a column (C11).                                         *)

MutatingLooking ==
    {"fillna", "find_and_replace", "copy", "as_numerical_column",
     "as_string_column", "sort_by_values", "replace", "lower", "cat"}

AttributeReads ==
    {"nvcategory", "indices", "unique", "is_unique",
     "is_monotonic_increasing", "is_monotonic_decreasing"}

IsReceiver(v) == "kind" \in DOMAIN v /\ v.kind = "self"

IsNothing(v) == "kind" \in DOMAIN v /\ v.kind = "NoneType"

ReturnsNewInstance(v) == ~IsReceiver(v) /\ ~IsNothing(v)

SameStorage(a, b) ==
    a.data = b.data /\ a.null_count = b.null_count /\ a.mask = b.mask

SameFlags(a, b) ==
    /\ a.is_monotonic_increasing = b.is_monotonic_increasing
    /\ a.is_monotonic_decreasing = b.is_monotonic_decreasing

InplaceFill(call) ==
    call.op = "fillna" /\ call.args.inplace /\ call.res.outcome = "ok"

(* C11, as stated: each of fillna (inplace or not), find_and_replace,      *)
(* copy, as_numerical_column, as_string_column, sort_by_values, replace,   *)
(* lower and cat returns a new instance and leaves the receiver's storage, *)
(* null_count and mask as they were; and no call changes a field of the    *)
(* column other than the category.                                         *)
C11_OnlyCategoryChanges ==
    /\ (last.op \in MutatingLooking /\ last.res.outcome = "ok") =>
           /\ ReturnsNewInstance(last.res.value)
           /\ SameStorage(self, last.args.receiver)
    /\ last.op \in MutatingLooking \cup AttributeReads =>
           /\ SameStorage(self, last.args.receiver)
           /\ self.indices = last.args.receiver.indices
           /\ SameFlags(self, last.args.receiver)

(* C11, amended: fillna without inplace, find_and_replace, copy,           *)
(* as_numerical_column, sort_by_values, replace, lower and cat return a    *)
(* newly built object and leave every field of the receiver as it was;     *)
(* as_string_column returns the receiver itself, unchanged; fillna with    *)
(* inplace returns no column; and reading nvcategory, indices,             *)
(* is_monotonic_increasing or is_monotonic_decreasing changes nothing but  *)
(* the attribute read (indices: and the category), and only from unset to  *)
(* set, while unique and is_unique change nothing at all.                  *)
C11_OnlyLazyAttributesChange ==
    /\ (last.op \in MutatingLooking \ {"as_string_column"} /\ ~InplaceFill(last)) =>
           /\ self = last.args.receiver
           /\ last.res.outcome = "ok" => ReturnsNewInstance(last.res.value)
    /\ last.op = "as_string_column" =>
           /\ self = last.args.receiver
           /\ last.res = Returned(Receiver(last.args.receiver), 0, 0)
    /\ InplaceFill(last) => IsNothing(last.res.value)
    /\ last.op \in {"unique", "is_unique"} => self = last.args.receiver
    /\ last.op = "nvcategory" =>
           /\ self.nvcategory.built
           /\ self = [last.args.receiver EXCEPT !.nvcategory = self.nvcategory]
           /\ last.args.receiver.nvcategory.built => self = last.args.receiver
    /\ last.op = "indices" =>
           /\ self.indices.present
           /\ self = [last.args.receiver EXCEPT !.nvcategory = self.nvcategory,
                                                !.indices = self.indices]
           /\ last.args.receiver.indices.present => self = last.args.receiver
    /\ last.op = "is_monotonic_increasing" =>
           /\ self.is_monotonic_increasing.set
           /\ self = [last.args.receiver EXCEPT
                         !.is_monotonic_increasing = self.is_monotonic_increasing]
           /\ last.args.receiver.is_monotonic_increasing.set =>
                  self = last.args.receiver
    /\ last.op = "is_monotonic_decreasing" =>
           /\ self.is_monotonic_decreasing.set
           /\ self = [last.args.receiver EXCEPT
                         !.is_monotonic_decreasing = self.is_monotonic_decreasing]
           /\ last.args.receiver.is_monotonic_decreasing.set =>
                  self = last.args.receiver

(* as_string_column on a column of two rows, one null, whose category,     *)
(* indices and increasing flag have been read before.                      *)
C11_Witness ==
    /\ last.op = "as_string_column"
    /\ IsReceiver(last.res.value)
    /\ last.res.value.col = self
    /\ Len(self.data) = 2
    /\ self.null_count = 1
    /\ self.nvcategory.built
    /\ self.indices.present
    /\ self.is_monotonic_increasing.set

----------------------------------------------------------------------------
(* Counts that mean "all" (C12).                                           *)

(* The tokens of row i in a table of split columns: its non-null cells.    *)
TokensAt(cols, i) ==
    LET n == Cardinality({k \in 1..Len(cols) : cols[k].data[i].valid})
    IN  [k \in 1..n |-> cols[k].data[i].s]

(* cols holds every split of d around pat: the non-null cells of a valid   *)
(* row are a prefix of the columns, none of them contains pat, and joined  *)
(* with pat they give the row back; a null row is null in every column.    *)
IsAllSplits(cols, d, pat) ==
    /\ \A k \in 1..Len(cols) : Len(cols[k].data) = Len(d)
    /\ \A i \in 1..Len(d) :
           LET toks == TokensAt(cols, i)
           IN  /\ \A k \in 1..Len(cols) : cols[k].data[i].valid <=> k <= Len(toks)
               /\ IF d[i].valid
                  THEN /\ Len(toks) >= 1
                       /\ JoinStrs(toks, pat) = d[i].s
                       /\ \A k \in 1..Len(toks) : FirstIdx(toks[k], pat) = 0
                  ELSE Len(toks) = 0
    /\ \A k \in 1..Len(cols) : \E i \in 1..Len(d) : cols[k].data[i].valid

(* Every match of pat in d replaced by repl: nothing of pat is left that   *)
(* a further replacement would change.                                     *)
IsAllReplaced(out, d, pat, repl) ==
    /\ Len(out) = Len(d)
    /\ \A i \in 1..Len(d) :
           /\ out[i].valid <=> d[i].valid
           /\ d[i].valid => out[i].s = ReplaceStr(d[i].s, pat, repl, Len(d[i].s))

----------------------------------------------------------------------------
(* Masks of len and contains (C13).                                        *)

(* The String Columns a call returned, if it returned any.                 *)
ReturnedColumns(call) ==
    IF call.res.outcome # "ok" THEN {}
    ELSE IF call.op \in {"replace", "lower"} THEN {call.res.value.col}
    ELSE IF call.op \in {"split", "extract"} /\ call.res.value.kind = "DataFrame"
    THEN {call.res.value.cols[k] : k \in 1..Len(call.res.value.cols)}
    ELSE IF call.op \in {"copy", "find_and_replace"} THEN {call.res.value.col}
    ELSE IF call.op = "fillna" /\ ~call.args.inplace THEN {call.res.value.col}
    ELSE IF call.op = "sort_by_values" THEN {call.res.value.keys}
    ELSE {}

(* C13: the column len or contains returns carries the input column's      *)
(* mask when the input has nulls and no mask otherwise, so that its row i  *)
(* is null exactly when row i of the input is; and a String Column, the    *)
(* receiver or one a call has built, has a mask exactly when its           *)
(* null_count is positive.                                                 *)
C13_MaskOfLenAndContains ==
    /\ (last.op \in {"len", "contains"} /\ last.res.outcome = "ok") =>
           LET out == last.res.value.col
           IN  /\ out.mask = (IF self.null_count > 0 THEN self.mask ELSE None)
               /\ self.null_count = 0 => ~out.mask.present
               /\ Len(out.values) = Len(self.data)
               /\ \A i \in 1..Len(self.data) :
                      IsNullAt(out, i) <=> ~self.data[i].valid
    /\ \A col \in {self} \cup ReturnedColumns(last) :
           col.mask.present <=> col.null_count > 0

(* len of a column of three rows, the second one null.                     *)
C13_Witness ==
    /\ last.op = "len"
    /\ last.res.outcome = "ok"
    /\ Len(self.data) = 3
    /\ self.data[1].valid /\ ~self.data[2].valid /\ self.data[3].valid
    /\ last.res.value.col.mask = self.mask
    /\ self.mask.present

----------------------------------------------------------------------------
(* The category is built once (C14).                                       *)

(* C14: of the calls nvcategory, indices, unique and is_unique on one      *)
(* column, only one made while the category is not built yet builds it,    *)
(* from the storage, and it leaves the category cached; a call made once   *)
(* the category is built builds nothing and leaves the cached category as  *)
(* it is.                                                                  *)
C14_CategoryBuiltOnce ==
    last.op \in {"nvcategory", "indices", "unique", "is_unique"} =>
        LET before == last.args.receiver
        IN  IF before.nvcategory.built
            THEN /\ last.res.builds = 0
                 /\ self.nvcategory = before.nvcategory
            ELSE /\ last.res.builds = 1
                 /\ self.nvcategory = from_strings(before.data)

----------------------------------------------------------------------------
(* cat over a sequence of columns (C15).                                   *)

(* Row r of the operands of cat, in order: the caller's column, then each  *)
(* element of `others`.                                                    *)
OperandRows(col, frames, r) ==
    <<col.data[r]>> \o [k \in 1..Len(frames) |-> frames[k][r]]

(* The operands joined by sep, na_rep standing for a null one; null when   *)
(* an operand is null and na_rep is not given.                             *)
JoinedRow(rows, sep, na_rep) ==
    IF na_rep.some
    THEN Row(JoinStrs([k \in 1..Len(rows) |->
                          IF rows[k].valid THEN rows[k].s ELSE na_rep.s], sep.s))
    ELSE IF \A k \in 1..Len(rows) : rows[k].valid
    THEN Row(JoinStrs([k \in 1..Len(rows) |-> rows[k].s], sep.s))
    ELSE NullRow

(* C15: cat with a non-empty sequence of columns o1, o2, ... for `others`  *)
(* returns a column whose row r is self[r], o1[r], o2[r], ... joined in    *)
(* this order by sep; the row is null if one of these operands is null and *)
(* na_rep is not given, and na_rep stands for each null operand when it    *)
(* is.  One storage concatenation is made per element.                     *)
C15_CatOverSequence ==
    (last.op = "cat" /\ last.args.others.kind = "list[list]") =>
        LET frames == last.args.others.frames
        IN  /\ last.res.outcome = "ok"
            /\ last.res.value.kind = "Series"
            /\ last.res.prims = Len(frames)
            /\ last.res.value.col =
                   StringColumn([r \in 1..Len(self.data) |->
                                    JoinedRow(OperandRows(self, frames, r),
                                              last.args.sep, last.args.na_rep)])

(* cat of a column with a null row and a row "a" with the two columns of   *)
(* all "1" and all "a", with a separator and without na_rep: the second    *)
(* row comes out as "a,1,a", the first as null.                            *)
C15_Witness ==
    /\ last.op = "cat"
    /\ last.args.others.kind = "list[list]"
    /\ Len(last.args.others.frames) = 2
    /\ last.args.sep = SomeStr(<<44>>)
    /\ last.args.na_rep = NoStr
    /\ Len(self.data) = 2
    /\ self.data[1] = NullRow
    /\ last.res.outcome = "ok"
    /\ last.res.value.col.data = <<NullRow, Row(<<97, 44, 49, 44, 97>>)>>

====
